---- MODULE Spec2Model ----
(***************************************************************************)
(* A model of the typed header container (HeaderMap) of mail-headers and   *)
(* of its built-in contextual validators.                                  *)
(*                                                                         *)
(* A header name is the tuple of its '-' separated words, so that the      *)
(* prefix test name.starts_with("Resent-") is a test on the first word.    *)
(* An entry of the map is a boxed header: the header kind it was inserted  *)
(* as (the kind is its runtime type identity) and what the validators read *)
(* of its body, the number of mailboxes of a mailbox list.                 *)
(***************************************************************************)
EXTENDS Naturals, Sequences, FiniteSets

VARIABLES map, last

vars == <<map, last>>

\* What an operation leaves in `last`: its name, its argument and what it
\* returned.
Called(op, arg, ret) == [op |-> op, arg |-> arg, ret |-> ret]

\* Largest number of entries of a map of specification Spec.
MaxLen == 3

\* Largest number of entries of a map of specification SpecResent.
MaxResentLen == 4

(***************************************************************************)
(* Header kinds                                                            *)
(***************************************************************************)

\* The header kinds of the model: the built-in ones, the kinds of the map's
\* tests (BadComments, XComment) and UserFrom, a kind another module
\* registers under the name From with other metadata.
HeaderKinds ==
    [ From         |-> [name |-> <<"From">>,             component |-> "MailboxList",
                        maxOne |-> TRUE,  validator |-> "from"],
      UserFrom     |-> [name |-> <<"From">>,             component |-> "MailboxList",
                        maxOne |-> FALSE, validator |-> "None"],
      Sender       |-> [name |-> <<"Sender">>,           component |-> "Mailbox",
                        maxOne |-> TRUE,  validator |-> "None"],
      Subject      |-> [name |-> <<"Subject">>,          component |-> "Unstructured",
                        maxOne |-> TRUE,  validator |-> "None"],
      Comments     |-> [name |-> <<"Comments">>,         component |-> "Unstructured",
                        maxOne |-> FALSE, validator |-> "None"],
      BadComments  |-> [name |-> <<"Comments">>,         component |-> "OtherComponent",
                        maxOne |-> FALSE, validator |-> "None"],
      XComment     |-> [name |-> <<"X", "Comment">>,     component |-> "Unstructured",
                        maxOne |-> FALSE, validator |-> "__validator"],
      ResentDate   |-> [name |-> <<"Resent", "Date">>,   component |-> "DateTime",
                        maxOne |-> FALSE, validator |-> "resent_any"],
      ResentFrom   |-> [name |-> <<"Resent", "From">>,   component |-> "MailboxList",
                        maxOne |-> FALSE, validator |-> "resent_any"],
      ResentSender |-> [name |-> <<"Resent", "Sender">>, component |-> "Mailbox",
                        maxOne |-> FALSE, validator |-> "resent_any"],
      ResentTo     |-> [name |-> <<"Resent", "To">>,     component |-> "MailboxList",
                        maxOne |-> FALSE, validator |-> "resent_any"] ]

\* Header::name of a header kind.
KindName(H) == HeaderKinds[H].name

\* HeaderObjTrait::name: the name of the kind the entry was inserted as.
name(hobj) == KindName(hobj.kind)

\* HeaderObjTrait::validator: the VALIDATOR of the kind the entry was inserted as.
validator(hobj) == HeaderKinds[hobj.kind].validator

\* A boxed header of kind H whose body holds n mailboxes (n is read only of
\* mailbox lists).
Header(H, n) == [kind |-> H, len |-> n]

\* The headers Spec inserts.
Entries ==
    { Header("From", 1), Header("From", 2), Header("UserFrom", 2),
      Header("Sender", 1), Header("Comments", 1), Header("BadComments", 1),
      Header("XComment", 1), Header("ResentDate", 1), Header("ResentFrom", 1) }

\* The headers SpecResent inserts.
ResentEntries ==
    { Header("ResentDate", 1), Header("ResentFrom", 1), Header("ResentFrom", 2),
      Header("ResentSender", 1), Header("ResentTo", 1), Header("Subject", 1) }

Names(E) == { name(e) : e \in E }

Kinds(E) == { e.kind : e \in E }

\* All maps of at most n entries out of E.
MapsUpTo(E, n) == UNION { [1..k -> E] : k \in 0..n }

(***************************************************************************)
(* HeaderMap: the operations on the ordered multi map                      *)
(***************************************************************************)

\* A mutant of add: the new entry is placed first.
add_first(m, header) == <<header>> \o m

\* HeaderMap::add: box the header and add it to the inner map. The inner
\* map's add never fails and compares no metadata.
add(m, header) == Append(m, header)

\* HeaderMap::get_untyped: the bodies stored under a name, in map order.
get_untyped(m, n) == SelectSeq(m, LAMBDA e : name(e) = n)

\* HeaderMap::contains
contains(m, n) == \E i \in 1..Len(m) : name(m[i]) = n

\* A mutant of remove_by_name: only the first entry of the name is removed.
remove_first_by_name(m, n) ==
    LET at == { i \in 1..Len(m) : name(m[i]) = n }
    IN  IF at = {}
        THEN m
        ELSE LET f == CHOOSE i \in at : \A j \in at : i <= j
             IN  SubSeq(m, 1, f - 1) \o SubSeq(m, f + 1, Len(m))

\* HeaderMap::remove_by_name: the map without the entries of that name.
remove_by_name(m, n) == SelectSeq(m, LAMBDA e : name(e) # n)

\* HeaderMap::set: the header becomes the only one of its name.
set(m, header) == Append(remove_by_name(m, name(header)), header)

\* HeaderMap::combine: the inner map is extended by other's entries in
\* other's order; nothing is compared and nothing fails.
combine(m, other) == m \o other

\* HeaderMap::clear as it would be if it left the entries in place.
clear_nothing(m) == m

\* HeaderMap::clear
clear(m) == << >>

\* A mutant of is: a header of the same name passes for one of kind H.
is_same_name(hobj, H) == name(hobj) = KindName(H)

\* HeaderObj::is: the entry's type id is that of a header of kind H.
is(hobj, H) == hobj.kind = H

\* HeaderObj::downcast_ref
downcast_ref(hobj, H) ==
    IF is(hobj, H) THEN [some |-> TRUE, val |-> hobj] ELSE [some |-> FALSE]

\* HeaderTypeError::new
HeaderTypeError(n) == [error |-> "HeaderTypeError", header_name |-> n]

\* TypedBodies::next: one item of get(H), the downcast of one untyped body.
TypedItem(hobj, H) ==
    LET cast == downcast_ref(hobj, H)
    IN  IF cast.some THEN [ok |-> TRUE, val |-> cast.val]
                     ELSE [ok |-> FALSE, err |-> HeaderTypeError(KindName(H))]

\* HeaderMap::_get: the typed bodies of kind H.
get(m, H) ==
    LET untyped == get_untyped(m, KindName(H))
    IN  [i \in 1..Len(untyped) |-> TypedItem(untyped[i], H)]

(***************************************************************************)
(* The built-in contextual validators                                      *)
(***************************************************************************)

\* A mutant of from: a From body of another kind counts too.
from_any_kind(m) ==
    LET bodies == get_untyped(m, KindName("From"))
        needs_sender == \E i \in 1..Len(bodies) : bodies[i].len > 1
    IN  IF needs_sender /\ ~contains(m, KindName("Sender"))
        THEN "MultiMailboxFromWithoutSender"
        ELSE "Ok"

\* validators::from: a From body that casts to the From kind and holds more
\* than one mailbox needs a Sender in the map.
from(m) ==
    LET bodies == get(m, "From")
        needs_sender ==
            \E i \in 1..Len(bodies) : bodies[i].ok /\ bodies[i].val.len > 1
    IN  IF needs_sender /\ ~contains(m, KindName("Sender"))
        THEN "MultiMailboxFromWithoutSender"
        ELSE "Ok"

\* The body of a block entry cast to the component type of ResentFrom.
downcast_component(hobj, H) ==
    IF HeaderKinds[hobj.kind].component = HeaderKinds[H].component
    THEN [some |-> TRUE, val |-> hobj] ELSE [some |-> FALSE]

\* validators::validate_resent_block. A block maps header names to bodies.
validate_resent_block(block) ==
    IF KindName("ResentDate") \notin DOMAIN block
    THEN "ResentDateFieldMissing"
    ELSE LET cast == IF KindName("ResentFrom") \in DOMAIN block
                     THEN downcast_component(block[KindName("ResentFrom")], "ResentFrom")
                     ELSE [some |-> FALSE]
             needs_sender == IF cast.some THEN cast.val.len > 1 ELSE FALSE
         IN  IF needs_sender /\ KindName("ResentSender") \notin DOMAIN block
             THEN "MultiMailboxResentFromWithoutResentSender"
             ELSE "Ok"

\* A mutant of starts_with_resent: every entry is taken for a resent one.
starts_with_anything(n) == TRUE

\* name.as_str().starts_with("Resent-")
starts_with_resent(n) == Len(n) > 1 /\ n[1] = "Resent"

\* HashMap::insert of the block
block_insert(block, n, content) ==
    [k \in DOMAIN block \cup {n} |-> IF k = n THEN content ELSE block[k]]

\* A mutant of block_complete: a recurring name starts no new block.
block_never_complete(block, n) == FALSE

\* block.contains_key(&name): the name recurs, the block is complete.
block_complete(block, n) == n \in DOMAIN block

\* The loop of validators::resent_any from entry i of the resent entries on.
RECURSIVE resent_loop(_, _, _)
resent_loop(resents, i, block) ==
    IF i > Len(resents)
    THEN validate_resent_block(block)
    ELSE LET n == name(resents[i])
         IN  IF block_complete(block, n)
             THEN LET res == validate_resent_block(block)
                  IN  IF res # "Ok"
                      THEN res
                      ELSE resent_loop(resents, i + 1,
                                       block_insert(<< >>, n, resents[i]))
             ELSE resent_loop(resents, i + 1, block_insert(block, n, resents[i]))

\* The entries validators::resent_any looks at.
resents_of(m) == SelectSeq(m, LAMBDA e : starts_with_resent(name(e)))

\* validators::resent_any
resent_any(m) == resent_loop(resents_of(m), 1, << >>)

\* The validator of the map's tests: X-Comment and Comments exclude each other.
__validator(m) ==
    IF Len(get_untyped(m, KindName("Comments"))) # 0 THEN "Custom" ELSE "Ok"

\* (validator)(self): the call of a validator function, named by its identity.
call_validator(v, m) ==
    CASE v = "from"        -> from(m)
      [] v = "resent_any"  -> resent_any(m)
      [] v = "__validator" -> __validator(m)

(***************************************************************************)
(* HeaderMap::use_contextual_validators                                    *)
(***************************************************************************)

\* A mutant of seen_insert: validators are not deduplicated.
seen_insert_always(seen, v) == TRUE

\* seen_validators.insert(ValidatorHashWrapper(validator)): true when the
\* function's identity was not in the set yet.
seen_insert(seen, v) == v \notin seen

\* A mutant of returns_early: the run goes on after a failure.
returns_early_never(res) == FALSE

\* The `?` after the validator call: an error returns from the run.
returns_early(res) == res # "Ok"

\* The loop over the entries' validators from entry i on: the calls made, in
\* order, each with its result, and the value returned.
RECURSIVE validators_loop(_, _, _, _)
validators_loop(m, i, seen, calls) ==
    IF i > Len(m)
    THEN [ret |-> "Ok", calls |-> calls]
    ELSE LET v == validator(m[i])
         IN  IF v = "None" \/ ~seen_insert(seen, v)
             THEN validators_loop(m, i + 1, seen, calls)
             ELSE LET res  == call_validator(v, m)
                      done == Append(calls, [validator |-> v, res |-> res])
                  IN  IF returns_early(res)
                      THEN [ret |-> res, calls |-> done]
                      ELSE validators_loop(m, i + 1, seen \cup {v}, done)

\* HeaderMap::use_contextual_validators
use_contextual_validators(m) == validators_loop(m, 1, {}, << >>)

(***************************************************************************)
(* The state machine: a map and the last operation called on it            *)
(***************************************************************************)

Init ==
    /\ map = << >>
    /\ last = Called("new", "none", "none")

\* map.add(header)
DoAdd(header, max) ==
    /\ Len(map) < max
    /\ map' = add(map, header)
    /\ last' = Called("add", header, get_untyped(map', name(header)))

\* map.set(header)
DoSet(header, max) ==
    /\ Len(map) < max
    /\ map' = set(map, header)
    /\ last' = Called("set", header, get_untyped(map, name(header)))

\* map.combine(other)
DoCombine(other, max) ==
    /\ Len(map) + Len(other) <= max
    /\ map' = combine(map, other)
    /\ last' = Called("combine", other, "self")

\* map.remove_by_name(n)
DoRemove(n) ==
    /\ map' = remove_by_name(map, n)
    /\ last' = Called("remove_by_name", n, Len(map') < Len(map))

\* map.clear()
DoClear ==
    /\ map' = clear(map)
    /\ last' = Called("clear", "none", "none")

\* map.get(H), collected
DoGet(H) ==
    /\ map' = map
    /\ last' = Called("get", H, get(map, H))

\* map.use_contextual_validators()
DoValidate ==
    /\ map' = map
    /\ last' = Called("use_contextual_validators", "none",
                      use_contextual_validators(map))

\* (H::VALIDATOR.unwrap())(&map): a kind's validator called by hand, as the
\* public constant Header::VALIDATOR allows.
DoCallValidator(v) ==
    /\ map' = map
    /\ last' = Called("VALIDATOR", v, call_validator(v, map))

Add == \E e \in Entries : DoAdd(e, MaxLen)

Set == \E e \in Entries : DoSet(e, MaxLen)

Combine == \E other \in MapsUpTo(Entries, MaxLen - Len(map)) : DoCombine(other, MaxLen)

RemoveByName == \E n \in Names(Entries) : DoRemove(n)

Clear == DoClear

Get == \E H \in Kinds(Entries) : DoGet(H)

UseContextualValidators == DoValidate

\* The validators of the built-in kinds.
BuiltInValidators == {"from", "resent_any"}

CallValidator == \E v \in BuiltInValidators : DoCallValidator(v)

Next ==
    \/ Add
    \/ Set
    \/ Combine
    \/ RemoveByName
    \/ Clear
    \/ Get
    \/ UseContextualValidators
    \/ CallValidator

Spec == Init /\ [][Next]_vars

\* The resent headers: maps long enough for two blocks.
ResentAdd == \E e \in ResentEntries : DoAdd(e, MaxResentLen)

ResentRemoveByName == \E n \in Names(ResentEntries) : DoRemove(n)

ResentValidate == DoValidate

NextResent ==
    \/ ResentAdd
    \/ ResentRemoveByName
    \/ ResentValidate

SpecResent == Init /\ [][NextResent]_vars

(***************************************************************************)
(* components/email.rs: Email, LocalPart, Domain                           *)
(*                                                                         *)
(* A text is a sequence of characters.  The characters are one letter,     *)
(* the dot, the at sign, the space, the double quote, the two brackets,    *)
(* and two non-ASCII characters: u-umlaut (U+00FC), which IDNA maps, and   *)
(* the control character U+0080, which IDNA disallows.                     *)
(***************************************************************************)

MaxTextLen == 4

Chars == {"a", ".", "@", " ", "\"", "[", "]", "U+00FC", "U+0080"}

Texts == UNION { [1..k -> Chars] : k \in 0..MaxTextLen }

MailTypes == {"Ascii", "Mime8BitEnabled", "Internationalized"}

\* MailType::is_internationalized
is_internationalized(mail_type) == mail_type = "Internationalized"

\* common::grammar::is_ascii
is_ascii(ch) == ch \notin {"U+00FC", "U+0080"}

\* common::grammar::is_ws: space and tab
is_ws(ch) == ch = " "

\* common::grammar::is_atext (RFC 5322 atext): letters, digits and
\* !#$%&'*+-/=?^_`{|}~, widened by the non-ASCII characters when the mail
\* type is Internationalized.
is_atext(ch, mail_type) ==
    \/ ch = "a"
    \/ ~is_ascii(ch) /\ mail_type = "Internationalized"

\* common::grammar::is_dtext (RFC 5322 dtext): the printable ASCII
\* characters but "[", "]" and the backslash, widened by the non-ASCII
\* characters when the mail type is Internationalized.
is_dtext(ch, mail_type) ==
    \/ ch \in {"a", ".", "@", "\""}
    \/ ~is_ascii(ch) /\ mail_type = "Internationalized"

Ok(val) == [ok |-> TRUE, val |-> val]

Err(kind, text) == [ok |-> FALSE, err |-> [kind |-> kind, text |-> text]]

starts_with(text, ch) == Len(text) > 0 /\ text[1] = ch

ends_with(text, ch) == Len(text) > 0 /\ text[Len(text)] = ch

\* check_domain, the domain-literal branch: every character of the text,
\* from the first to the last, is dtext or whitespace.
RECURSIVE check_literal(_, _, _)
check_literal(domain, i, ascii) ==
    IF i > Len(domain) THEN Ok(IF ascii THEN "Ascii" ELSE "Internationalized")
    ELSE IF ~(is_dtext(domain[i], "Internationalized") \/ is_ws(domain[i]))
    THEN Err("InvalidDomainName", domain)
    ELSE check_literal(domain, i + 1, ascii /\ is_ascii(domain[i]))

\* check_domain, the dot-atom-text branch.
RECURSIVE check_dot_atom(_, _, _, _)
check_dot_atom(domain, i, ascii, dot_alowed) ==
    IF i > Len(domain) THEN Ok(IF ascii THEN "Ascii" ELSE "Internationalized")
    ELSE IF domain[i] = "." /\ dot_alowed
    THEN check_dot_atom(domain, i + 1, ascii /\ is_ascii(domain[i]), FALSE)
    ELSE IF ~is_atext(domain[i], "Internationalized")
    THEN Err("InvalidDomainName", domain)
    ELSE check_dot_atom(domain, i + 1, ascii /\ is_ascii(domain[i]), TRUE)

\* A plausible slip: the first character may be a dot.
check_domain_dot_first(domain) ==
    IF starts_with(domain, "[") /\ ends_with(domain, "]")
    THEN check_literal(domain, 1, TRUE)
    ELSE check_dot_atom(domain, 1, TRUE, TRUE)

\* Domain::check_domain
check_domain(domain) ==
    IF starts_with(domain, "[") /\ ends_with(domain, "]")
    THEN check_literal(domain, 1, TRUE)
    ELSE check_dot_atom(domain, 1, TRUE, FALSE)

\* Domain::try_from as it would be if every checked text were taken for
\* ASCII.
Domain_try_from_unchecked(input) ==
    LET checked == check_domain(input)
    IN  IF ~checked.ok THEN checked
        ELSE Ok([tag |-> "Ascii", text |-> input])

\* <Domain as HeaderTryFrom>::try_from: the text, tagged Ascii or Utf8.
Domain_try_from(input) ==
    LET checked == check_domain(input)
    IN  IF ~checked.ok THEN checked
        ELSE IF checked.val \in {"Ascii", "Mime8BitEnabled"}
        THEN Ok([tag |-> "Ascii", text |-> input])
        ELSE Ok([tag |-> "Utf8", text |-> input])

\* <LocalPart as HeaderTryFrom>::try_from: any text.
LocalPart_try_from(input) == Ok(input)

\* str::find("@"): the first index of the at sign, 0 for None.
find_at(text) ==
    IF \E i \in 1..Len(text) : text[i] = "@"
    THEN CHOOSE i \in 1..Len(text) :
             text[i] = "@" /\ \A j \in 1..(i - 1) : text[j] # "@"
    ELSE 0

\* A plausible slip: a text without an at sign is all local part.
Email_new_lenient(email) ==
    LET index == find_at(email)
    IN  IF index = 0 THEN Ok([local_part |-> email,
                              domain |-> [tag |-> "Ascii", text |-> << >>]])
        ELSE Ok([local_part |-> SubSeq(email, 1, index - 1),
                 domain |-> [tag |-> "Ascii", text |-> SubSeq(email, index + 1, Len(email))]])

\* Email::new
Email_new(email) ==
    LET index == find_at(email)
    IN  IF index = 0 THEN Err("InvalidEmail", email)
        ELSE LET local_part == LocalPart_try_from(SubSeq(email, 1, index - 1))
                 domain == Domain_try_from(SubSeq(email, index + 1, Len(email)))
             IN  IF ~local_part.ok THEN local_part
                 ELSE IF ~domain.ok THEN domain
                 ELSE Ok([local_part |-> local_part.val, domain |-> domain.val])

(***************************************************************************)
(* The writer (EncodeHandle): its mail type and the trace of what was      *)
(* written, fold marks and text tokens; texts written one after another    *)
(* make one token.                                                         *)
(***************************************************************************)

MarkFWS == [type |-> "MarkFWS", text |-> << >>]

Text(text) == [type |-> "Text", text |-> text]

\* Encoder::new(mail_type).encode_handle()
Encoder_new(mail_type) == [mail_type |-> mail_type, trace |-> << >>]

\* EncodeHandle::mark_fws_pos
mark_fws_pos(handle) == [handle EXCEPT !.trace = Append(@, MarkFWS)]

\* EncodeHandle::write_str, write_str_unchecked, write_char
write_str(handle, text) ==
    LET n == Len(handle.trace)
    IN  IF n > 0 /\ handle.trace[n].type = "Text"
        THEN [handle EXCEPT !.trace[n] = Text(@.text \o text)]
        ELSE [handle EXCEPT !.trace = Append(@, Text(text))]

\* EncodeHandle::write_if_utf8: written only by an internationalized writer.
write_if_utf8(handle, text) ==
    IF is_internationalized(handle.mail_type)
    THEN [condition |-> TRUE, handle |-> write_str(handle, text)]
    ELSE [condition |-> FALSE, handle |-> handle]

\* What an encode returns: Ok or the error, and the writer as it left it.
Encoded(handle) == [ok |-> TRUE, handle |-> handle]

EncodeErr(kind, text, handle) ==
    [ok |-> FALSE, err |-> [kind |-> kind, text |-> text], handle |-> handle]

(***************************************************************************)
(* quoted_string::quote_if_needed with UnquotedDotAtomTextValidator        *)
(***************************************************************************)

\* UnquotedDotAtomTextValidator::next over the text: the index of the first
\* character the validator rejects, 0 if none; allow_dot is its state.
RECURSIVE needs_quoting_from(_, _, _, _)
needs_quoting_from(input, i, allow_dot, mail_type) ==
    IF i > Len(input) THEN [idx |-> 0, allow_dot |-> allow_dot]
    ELSE IF is_atext(input[i], mail_type)
    THEN needs_quoting_from(input, i + 1, TRUE, mail_type)
    ELSE IF allow_dot /\ input[i] = "."
    THEN needs_quoting_from(input, i + 1, FALSE, mail_type)
    ELSE [idx |-> i, allow_dot |-> allow_dot]

\* The quoted-string classes of MimeSpec<Ascii|Internationalized, Modern>:
\* a character that cannot stand in a quoted string is invalid, the double
\* quote (and the backslash) needs a quoted pair.
is_valid_quotable(ch, spec) == is_ascii(ch) \/ spec = "Internationalized"

needs_quoted_pair(ch) == ch = "\""

DQUOTE == <<"\"">>

BACKSLASH == <<"\\">>

\* quote_inner::<Spec>(input[i..], out)
RECURSIVE quote_inner(_, _, _)
quote_inner(input, i, spec) ==
    IF i > Len(input) THEN Ok(<< >>)
    ELSE IF ~is_valid_quotable(input[i], spec) THEN [ok |-> FALSE]
    ELSE LET rest == quote_inner(input, i + 1, spec)
         IN  IF ~rest.ok THEN rest
             ELSE IF needs_quoted_pair(input[i])
             THEN Ok(BACKSLASH \o <<input[i]>> \o rest.val)
             ELSE Ok(<<input[i]>> \o rest.val)

\* quote_if_needed::<MimeSpec<spec, Modern>, _>(input, validator)
quote_if_needed(spec, input, mail_type) ==
    LET scan == needs_quoting_from(input, 1, FALSE, mail_type)
        start_quoting_from == IF Len(input) = 0 THEN 1 ELSE scan.idx
    IN  IF Len(input) # 0 /\ scan.idx = 0
        THEN IF scan.allow_dot THEN Ok(input)
             ELSE Ok(DQUOTE \o input \o DQUOTE)
        ELSE LET quoted == quote_inner(input, start_quoting_from, spec)
             IN  IF ~quoted.ok THEN quoted
                 ELSE Ok(DQUOTE \o SubSeq(input, 1, start_quoting_from - 1)
                                \o quoted.val \o DQUOTE)

\* A plausible slip: the fold mark is set before the text is quoted.
LocalPart_encode_mark_first(local_part, handle) ==
    LET input == local_part
        mail_type == handle.mail_type
        marked == mark_fws_pos(handle)
        res == IF is_internationalized(mail_type)
               THEN quote_if_needed("Internationalized", input, mail_type)
               ELSE quote_if_needed("Ascii", input, mail_type)
    IN  IF ~res.ok THEN EncodeErr("InvalidLocalPart", input, marked)
        ELSE Encoded(mark_fws_pos(write_str(marked, res.val)))

\* A plausible slip: the stored text is written, not the quoted one.
LocalPart_encode_unquoted(local_part, handle) ==
    LET input == local_part
        mail_type == handle.mail_type
        res == IF is_internationalized(mail_type)
               THEN quote_if_needed("Internationalized", input, mail_type)
               ELSE quote_if_needed("Ascii", input, mail_type)
    IN  IF ~res.ok THEN EncodeErr("InvalidLocalPart", input, handle)
        ELSE Encoded(mark_fws_pos(write_str(mark_fws_pos(handle), input)))

\* LocalPart::encode
LocalPart_encode(local_part, handle) ==
    LET input == local_part
        mail_type == handle.mail_type
        res == IF is_internationalized(mail_type)
               THEN quote_if_needed("Internationalized", input, mail_type)
               ELSE quote_if_needed("Ascii", input, mail_type)
    IN  IF ~res.ok THEN EncodeErr("InvalidLocalPart", input, handle)
        ELSE Encoded(mark_fws_pos(write_str(mark_fws_pos(handle), res.val)))

(***************************************************************************)
(* common::codec::idna::puny_code_domain: every label that is not ASCII    *)
(* becomes "xn--" and its punycode (RFC 3492); a disallowed character      *)
(* makes the transform fail.                                               *)
(***************************************************************************)

CodePoint(ch) ==
    CASE ch = "a"      -> 97
      [] ch = "."      -> 46
      [] ch = "@"      -> 64
      [] ch = " "      -> 32
      [] ch = "\""     -> 34
      [] ch = "["      -> 91
      [] ch = "]"      -> 93
      [] ch = "U+0080" -> 128
      [] ch = "U+00FC" -> 252

PunyDigits ==
    <<"a", "b", "c", "d", "e", "f", "g", "h", "i", "j", "k", "l", "m",
      "n", "o", "p", "q", "r", "s", "t", "u", "v", "w", "x", "y", "z",
      "0", "1", "2", "3", "4", "5", "6", "7", "8", "9">>

puny_digit(d) == <<PunyDigits[d + 1]>>

puny_threshold(k, bias) ==
    IF k <= bias THEN 1 ELSE IF k >= bias + 26 THEN 26 ELSE k - bias

\* delta as a generalized variable-length integer
RECURSIVE puny_integer(_, _, _)
puny_integer(q, k, bias) ==
    LET t == puny_threshold(k, bias)
    IN  IF q < t THEN puny_digit(q)
        ELSE puny_digit(t + ((q - t) % (36 - t)))
                 \o puny_integer((q - t) \div (36 - t), k + 36, bias)

RECURSIVE puny_adapt_loop(_, _)
puny_adapt_loop(delta, k) ==
    IF delta > 455 THEN puny_adapt_loop(delta \div 35, k + 36)
    ELSE k + ((36 * delta) \div (delta + 38))

puny_adapt(delta, numpoints, first) ==
    LET damped == IF first THEN delta \div 700 ELSE delta \div 2
    IN  puny_adapt_loop(damped + (damped \div numpoints), 0)

\* one pass over the label for the code point st.n
RECURSIVE puny_pass(_, _, _)
puny_pass(label, i, st) ==
    IF i > Len(label) THEN st
    ELSE LET c == CodePoint(label[i])
         IN  IF c < st.n
             THEN puny_pass(label, i + 1, [st EXCEPT !.delta = @ + 1])
             ELSE IF c = st.n
             THEN puny_pass(label, i + 1,
                      [st EXCEPT !.out = @ \o puny_integer(st.delta, 36, st.bias),
                                 !.bias = puny_adapt(st.delta, st.h + 1, st.h = st.b),
                                 !.delta = 0,
                                 !.h = @ + 1])
             ELSE puny_pass(label, i + 1, st)

Min(S) == CHOOSE x \in S : \A y \in S : x <= y

RECURSIVE puny_loop(_, _)
puny_loop(label, st) ==
    IF st.h >= Len(label) THEN st.out
    ELSE LET m == Min({ CodePoint(label[i]) : i \in { j \in 1..Len(label) :
                                                       CodePoint(label[j]) >= st.n } })
             passed == puny_pass(label, 1,
                           [st EXCEPT !.delta = @ + (m - st.n) * (st.h + 1), !.n = m])
         IN  puny_loop(label, [passed EXCEPT !.delta = @ + 1, !.n = @ + 1])

\* punycode::encode of one label
punycode(label) ==
    LET basic == SelectSeq(label, is_ascii)
        b == Len(basic)
    IN  puny_loop(label, [n |-> 128, delta |-> 0, bias |-> 72, h |-> b, b |-> b,
                          out |-> IF b > 0 THEN basic \o <<"-">> ELSE basic])

to_ace(label) ==
    IF \A i \in 1..Len(label) : is_ascii(label[i]) THEN label
    ELSE <<"x", "n", "-", "-">> \o punycode(label)

\* the labels of a domain, each transformed, joined by dots again
RECURSIVE puny_labels(_, _, _)
puny_labels(domain, i, label) ==
    IF i > Len(domain) THEN to_ace(label)
    ELSE IF domain[i] = "." THEN to_ace(label) \o <<".">> \o puny_labels(domain, i + 1, << >>)
    ELSE puny_labels(domain, i + 1, Append(label, domain[i]))

idna_disallowed(ch) == ch = "U+0080"

puny_code_domain(domain) ==
    IF \E i \in 1..Len(domain) : idna_disallowed(domain[i]) THEN [ok |-> FALSE]
    ELSE Ok(puny_labels(domain, 1, << >>))

\* A plausible slip: the UTF-8 text is written whatever the mail type.
Domain_encode_raw(domain, handle) ==
    Encoded(mark_fws_pos(write_str(mark_fws_pos(handle), domain.text)))

\* Domain::encode
Domain_encode(domain, handle) ==
    LET marked == mark_fws_pos(handle)
    IN  IF domain.tag = "Ascii"
        THEN Encoded(mark_fws_pos(write_str(marked, domain.text)))
        ELSE LET written == write_if_utf8(marked, domain.text)
             IN  IF written.condition THEN Encoded(mark_fws_pos(written.handle))
                 ELSE LET puny == puny_code_domain(domain.text)
                      IN  IF ~puny.ok
                          THEN EncodeErr("PunyCodingDomainFailed", domain.text, marked)
                          ELSE Encoded(mark_fws_pos(write_str(marked, puny.val)))

\* A plausible slip: the at sign is not written.
Email_encode_without_at(email, handle) ==
    LET local_part == LocalPart_encode(email.local_part, handle)
    IN  IF ~local_part.ok THEN local_part
        ELSE Domain_encode(email.domain, local_part.handle)

\* Email::encode as it would be if the local part's failure did not stop
\* it.
Email_encode_not_stopping(email, handle) ==
    LET local_part == LocalPart_encode(email.local_part, handle)
    IN  Domain_encode(email.domain, write_str(local_part.handle, <<"@">>))

\* Email::encode
Email_encode(email, handle) ==
    LET local_part == LocalPart_encode(email.local_part, handle)
    IN  IF ~local_part.ok THEN local_part
        ELSE Domain_encode(email.domain, write_str(local_part.handle, <<"@">>))

(***************************************************************************)
(* The components' state machine: a component is constructed from a text,  *)
(* then encoded with a fresh writer of some mail type.  The header map is  *)
(* not touched.                                                            *)
(***************************************************************************)

\* Email::try_from(text); a component is constructed once, from the initial
\* state.
DoEmailNew(text) ==
    /\ last' = Called("Email::new", text, Email_new(text))
    /\ UNCHANGED map

\* Domain::try_from(text)
DoDomainTryFrom(text) ==
    /\ last' = Called("Domain::try_from", text, Domain_try_from(text))
    /\ UNCHANGED map

\* LocalPart::try_from(text)
DoLocalPartTryFrom(text) ==
    /\ last' = Called("LocalPart::try_from", text, LocalPart_try_from(text))
    /\ UNCHANGED map

\* email.encode(&mut handle), the Email just constructed, a fresh writer
DoEmailEncode(mail_type) ==
    /\ last.op = "Email::new"
    /\ last.ret.ok
    /\ last' = Called("Email::encode",
                      [component |-> last.ret.val, mail_type |-> mail_type],
                      Email_encode(last.ret.val, Encoder_new(mail_type)))
    /\ UNCHANGED map

\* domain.encode(&mut handle), the Domain just constructed, a fresh writer
DoDomainEncode(mail_type) ==
    /\ last.op = "Domain::try_from"
    /\ last.ret.ok
    /\ last' = Called("Domain::encode",
                      [component |-> last.ret.val, mail_type |-> mail_type],
                      Domain_encode(last.ret.val, Encoder_new(mail_type)))
    /\ UNCHANGED map

\* local_part.encode(&mut handle), the LocalPart just constructed, a fresh
\* writer
DoLocalPartEncode(mail_type) ==
    /\ last.op = "LocalPart::try_from"
    /\ last.ret.ok
    /\ last' = Called("LocalPart::encode",
                      [component |-> last.ret.val, mail_type |-> mail_type],
                      LocalPart_encode(last.ret.val, Encoder_new(mail_type)))
    /\ UNCHANGED map

EmailNew == last.op = "new" /\ \E text \in Texts : DoEmailNew(text)

DomainTryFrom == last.op = "new" /\ \E text \in Texts : DoDomainTryFrom(text)

LocalPartTryFrom == last.op = "new" /\ \E text \in Texts : DoLocalPartTryFrom(text)

EmailEncode == \E mail_type \in MailTypes : DoEmailEncode(mail_type)

DomainEncode == \E mail_type \in MailTypes : DoDomainEncode(mail_type)

LocalPartEncode == \E mail_type \in MailTypes : DoLocalPartEncode(mail_type)

NextEmail ==
    \/ EmailNew
    \/ DomainTryFrom
    \/ LocalPartTryFrom
    \/ EmailEncode
    \/ DomainEncode
    \/ LocalPartEncode

SpecEmail == Init /\ [][NextEmail]_vars

(***************************************************************************)
(* components/message_id.rs: MessageID                                     *)
(*                                                                         *)
(* The nom parsers return Done with the index where the rest of the input  *)
(* starts, Error, or Incomplete when the input ends too early.             *)
(***************************************************************************)

Done(rest) == [kind |-> "Done", rest |-> rest]

ParseError == [kind |-> "Error", rest |-> 0]

Incomplete == [kind |-> "Incomplete", rest |-> 0]

\* char!(ch)
parse_char(ch, input, i) ==
    IF i > Len(input) THEN Incomplete
    ELSE IF input[i] = ch THEN Done(i + 1)
    ELSE ParseError

\* the index after the longest run of atext / dtext that starts at i
RECURSIVE run_end(_, _, _)
run_end(input, i, class) ==
    IF i > Len(input) THEN i
    ELSE IF \/ class = "atext" /\ is_atext(input[i], "Internationalized")
            \/ class = "dtext" /\ is_dtext(input[i], "Internationalized")
    THEN run_end(input, i + 1, class)
    ELSE i

\* take_while!: a run, possibly empty
take_while(input, i, class) == Done(run_end(input, i, class))

\* take_while1!: a run of at least one character
take_while1(input, i, class) ==
    IF i > Len(input) THEN Incomplete
    ELSE IF run_end(input, i, class) = i THEN ParseError
    ELSE Done(run_end(input, i, class))

\* tuple!(char!('.'), take_while1!(is_atext))
dot_and_atext(input, i) ==
    LET dot == parse_char(".", input, i)
    IN  IF dot.kind # "Done" THEN dot ELSE take_while1(input, dot.rest, "atext")

\* many0!: stops at the end of the input and at the first Error
RECURSIVE many0_dot_and_atext(_, _)
many0_dot_and_atext(input, i) ==
    IF i > Len(input) THEN Done(i)
    ELSE LET one == dot_and_atext(input, i)
         IN  CASE one.kind = "Error"      -> Done(i)
               [] one.kind = "Incomplete" -> Incomplete
               [] one.kind = "Done"       -> many0_dot_and_atext(input, one.rest)

\* parser_parts::dot_atom_text
dot_atom_text(input, i) ==
    LET first == take_while1(input, i, "atext")
    IN  IF first.kind # "Done" THEN first ELSE many0_dot_and_atext(input, first.rest)

\* parser_parts::no_fold_literal
no_fold_literal(input, i) ==
    LET open == parse_char("[", input, i)
    IN  IF open.kind # "Done" THEN open
        ELSE parse_char("]", input, take_while(input, open.rest, "dtext").rest)

\* parser_parts::id_left
id_left(input, i) == dot_atom_text(input, i)

\* parser_parts::id_right: alt!(no_fold_literal | dot_atom_text)
id_right(input, i) ==
    LET literal == no_fold_literal(input, i)
    IN  IF literal.kind = "Error" THEN dot_atom_text(input, i) ELSE literal

\* parser_parts::parse_message_id
parse_message_id(input) ==
    LET l == id_left(input, 1)
    IN  IF l.kind # "Done" THEN l
        ELSE LET at == parse_char("@", input, l.rest)
             IN  IF at.kind # "Done" THEN at ELSE id_right(input, at.rest)

\* <SimpleItem as From<Input>>::from
SimpleItem_from(input) ==
    IF \A i \in 1..Len(input) : is_ascii(input[i])
    THEN [tag |-> "Ascii", text |-> input]
    ELSE [tag |-> "Utf8", text |-> input]

\* ComponentCreationError::new_with_str
ComponentCreationError(component, str_context) ==
    [ok |-> FALSE, err |-> [component |-> component, str_context |-> str_context]]

\* A plausible slip: input left over after the id is not looked at.
MessageID_try_from_prefix(input) ==
    IF parse_message_id(input).kind = "Done"
    THEN Ok([message_id |-> SimpleItem_from(input)])
    ELSE ComponentCreationError("MessageID", input)

\* <MessageID as HeaderTryFrom>::try_from
MessageID_try_from(input) ==
    LET parsed == parse_message_id(input)
    IN  IF parsed.kind = "Done" /\ parsed.rest = Len(input) + 1
        THEN Ok([message_id |-> SimpleItem_from(input)])
        ELSE ComponentCreationError("MessageID", input)

\* EncodingWriter::write_utf8: refused unless the writer is internationalized
write_utf8(handle, text) ==
    IF is_internationalized(handle.mail_type)
    THEN Encoded(write_str(handle, text))
    ELSE EncodeErr("InvalidUtf8", text, handle)

\* EncodeHandle::undo_header: the writer drops what was written for the
\* header in progress; the writers here hold nothing else.
undo_header(handle) == [handle EXCEPT !.trace = << >>]

\* MessageID::encode as it would be if it rolled the writer back itself.
MessageID_encode_undoing(message_id, handle) ==
    LET opened == write_str(mark_fws_pos(handle), <<"<">>)
        item == message_id.message_id
        body == IF item.tag = "Ascii"
                THEN Encoded(write_str(opened, item.text))
                ELSE write_utf8(opened, item.text)
    IN  IF ~body.ok THEN [body EXCEPT !.handle = undo_header(@)]
        ELSE Encoded(mark_fws_pos(write_str(body.handle, <<">">>)))

\* A plausible slip: a text that is not ASCII gets the domain's fallback.
MessageID_encode_puny(message_id, handle) ==
    LET opened == write_str(mark_fws_pos(handle), <<"<">>)
        item == message_id.message_id
        body == IF item.tag = "Ascii" \/ is_internationalized(handle.mail_type)
                THEN Encoded(write_str(opened, item.text))
                ELSE Encoded(write_str(opened, puny_labels(item.text, 1, << >>)))
    IN  Encoded(mark_fws_pos(write_str(body.handle, <<">">>)))

\* MessageID::encode
MessageID_encode(message_id, handle) ==
    LET opened == write_str(mark_fws_pos(handle), <<"<">>)
        item == message_id.message_id
        body == IF item.tag = "Ascii"
                THEN Encoded(write_str(opened, item.text))
                ELSE write_utf8(opened, item.text)
    IN  IF ~body.ok THEN body
        ELSE Encoded(mark_fws_pos(write_str(body.handle, <<">">>)))

(***************************************************************************)
(* Mailbox: an optional display name (a Phrase) and an Email.              *)
(***************************************************************************)

None == [some |-> FALSE]

Some(val) == [some |-> TRUE, val |-> val]

\* A Phrase is a sequence of words; the display names used are those of
\* the tests: "ay" and "ay ya".
Phrases == { [words |-> <<(<<"a", "y">>)>>],
             [words |-> <<(<<"a", "y">>), (<<"y", "a">>)>>] }

\* EncodeHandle::write_fws: a fold mark, then one space.
write_fws(handle) == write_str(mark_fws_pos(handle), <<" ">>)

\* Phrase::encode: the words, separated by folding whitespace.  Whether the
\* encode succeeds is decided outside of this code (encode_ok); a failed
\* encode has written nothing.
RECURSIVE write_words(_, _, _)
write_words(handle, words, i) ==
    IF i > Len(words) THEN handle
    ELSE write_words(write_str(IF i = 1 THEN handle ELSE write_fws(handle),
                               words[i]),
                     words, i + 1)

Phrase_encode(phrase, handle, encode_ok) ==
    IF encode_ok THEN Encoded(write_words(handle, phrase.words, 1))
    ELSE EncodeErr("Phrase", phrase.words, handle)

\* impl From<(Option<Phrase>, Email)> for Mailbox; From<Email> is the case
\* display_name = None.
Mailbox_from(display_name, email) ==
    [display_name |-> display_name, email |-> email]

\* Mailbox::encode as it would be without the separator after the name.
Mailbox_encode_no_fws(mailbox, handle, encode_ok) ==
    LET display_name ==
            IF mailbox.display_name.some
            THEN Phrase_encode(mailbox.display_name.val, handle, encode_ok)
            ELSE Encoded(handle)
    IN  IF ~display_name.ok THEN display_name
        ELSE LET email == Email_encode(mailbox.email,
                                       write_str(display_name.handle, <<"<">>))
             IN  IF ~email.ok THEN email
                 ELSE Encoded(write_str(email.handle, <<">">>))

\* Mailbox::encode; encode_ok is the outcome of the display name's encode.
Mailbox_encode(mailbox, handle, encode_ok) ==
    LET display_name ==
            IF mailbox.display_name.some
            THEN LET phrase == Phrase_encode(mailbox.display_name.val, handle,
                                             encode_ok)
                 IN  IF ~phrase.ok THEN phrase
                     ELSE Encoded(write_fws(phrase.handle))
            ELSE Encoded(handle)
    IN  IF ~display_name.ok THEN display_name
        ELSE LET email == Email_encode(mailbox.email,
                                       write_str(display_name.handle, <<"<">>))
             IN  IF ~email.ok THEN email
                 ELSE Encoded(write_str(email.handle, <<">">>))

\* What a name generator (default_fn) answers for an email: a name, no
\* name, or an error.
GeneratorResults ==
    { Ok(Some(phrase)) : phrase \in Phrases } \cup { Ok(None), Err("ups", << >>) }

\* Mailbox::auto_gen_name as it would be if it always asked the generator.
auto_gen_name_always(mailbox, default_fn) ==
    IF ~default_fn.ok
    THEN [result |-> default_fn, mailbox |-> mailbox, calls |-> <<mailbox.email>>]
    ELSE [result |-> Ok(<< >>),
          mailbox |-> [mailbox EXCEPT !.display_name = default_fn.val],
          calls |-> <<mailbox.email>>]

\* Mailbox::auto_gen_name(&mut self, default_fn): the result, self as it is
\* afterwards, and the emails default_fn was called with.
auto_gen_name(mailbox, default_fn) ==
    IF ~mailbox.display_name.some
    THEN IF ~default_fn.ok
         THEN [result |-> default_fn, mailbox |-> mailbox,
               calls |-> <<mailbox.email>>]
         ELSE [result |-> Ok(<< >>),
               mailbox |-> [mailbox EXCEPT !.display_name = default_fn.val],
               calls |-> <<mailbox.email>>]
    ELSE [result |-> Ok(<< >>), mailbox |-> mailbox, calls |-> << >>]

\* Mailbox::with_default_name(self, default_fn)
with_default_name(mailbox, default_fn) ==
    LET gen == auto_gen_name(mailbox, default_fn)
    IN  [result |-> IF gen.result.ok THEN Ok(gen.mailbox) ELSE gen.result,
         calls |-> gen.calls]

(***************************************************************************)
(* RawUnstructured and TransferEncoding                                    *)
(***************************************************************************)

\* common::grammar::is_vchar (RFC 5322 VCHAR): the visible ASCII
\* characters, widened by the non-ASCII characters when the mail type is
\* Internationalized.
is_vchar(ch, mail_type) ==
    \/ ch \in {"a", ".", "@", "\"", "[", "]"}
    \/ ~is_ascii(ch) /\ is_internationalized(mail_type)

\* impl From<T> for RawUnstructured
RawUnstructured_from(val) == [text |-> val]

\* RawUnstructured::encode as it would be without the check of the text.
RawUnstructured_encode_unchecked(raw, handle) ==
    IF is_internationalized(handle.mail_type)
    THEN write_utf8(handle, raw.text)
    ELSE Encoded(write_str(handle, raw.text))

\* RawUnstructured::encode
RawUnstructured_encode(raw, handle) ==
    LET mail_type == handle.mail_type
    IN  IF ~(\A i \in 1..Len(raw.text) : is_vchar(raw.text[i], mail_type))
        THEN EncodeErr("InvalidRawUnstructured", raw.text, handle)
        ELSE IF is_internationalized(handle.mail_type)
        THEN write_utf8(handle, raw.text)
        ELSE Encoded(write_str(handle, raw.text))

TransferEncodings == {"_7Bit", "_8Bit", "Binary", "QuotedPrintable", "Base64"}

\* TransferEncoding::repr
repr(self) ==
    CASE self = "_7Bit" -> <<"7", "b", "i", "t">>
      [] self = "_8Bit" -> <<"8", "b", "i", "t">>
      [] self = "Binary" -> <<"b", "i", "n", "a", "r", "y">>
      [] self = "QuotedPrintable" ->
             <<"q", "u", "o", "t", "e", "d", "-",
               "p", "r", "i", "n", "t", "a", "b", "l", "e">>
      [] self = "Base64" -> <<"b", "a", "s", "e", "6", "4">>

\* TransferEncoding::encode
TransferEncoding_encode(self, handle) == Encoded(write_str(handle, repr(self)))

(***************************************************************************)
(* utils::text_partition                                                   *)
(***************************************************************************)

\* The characters partition is tried on: a letter, a non-ASCII letter, the
\* space, CR, LF and a control character (NUL).
PartitionChars == {"a", "U+00FC", " ", "\r", "\n", "NUL"}

PartitionTexts == UNION { [1..k -> PartitionChars] : k \in 0..MaxTextLen }

\* Partition::SPACE(text), Partition::VCHAR(text)
Partition(type, text) == [type |-> type, text |-> text]

\* The for loop of partition, from the character at idx on: the partitions
\* pushed and the run in progress, or the error.
RECURSIVE partition_loop(_, _, _, _, _)
partition_loop(text, idx, partitions, start_of_current, current_type) ==
    IF idx > Len(text)
    THEN Ok([partitions |-> partitions, start_of_current |-> start_of_current,
             current_type |-> current_type])
    ELSE IF is_vchar(text[idx], "Internationalized")
    THEN IF current_type = "SPACE"
         THEN partition_loop(text, idx + 1,
                  Append(partitions,
                         Partition("SPACE", SubSeq(text, start_of_current, idx - 1))),
                  idx, "VCHAR")
         ELSE partition_loop(text, idx + 1, partitions, start_of_current,
                             current_type)
    ELSE IF is_ws(text[idx]) \/ text[idx] = "\r" \/ text[idx] = "\n"
    THEN IF current_type = "VCHAR"
         THEN partition_loop(text, idx + 1,
                  Append(partitions,
                         Partition("VCHAR", SubSeq(text, start_of_current, idx - 1))),
                  idx, "SPACE")
         ELSE partition_loop(text, idx + 1, partitions, start_of_current,
                             current_type)
    ELSE Err("NeedAtLastOneVCHAR", text)

\* partition as it would be without the push after the loop.
partition_without_last(text) ==
    IF Len(text) = 0 THEN Ok(<< >>)
    ELSE LET start_with_vchar == is_vchar(text[1], "Internationalized")
             looped == partition_loop(text, 1, << >>, 1,
                           IF start_with_vchar THEN "VCHAR" ELSE "SPACE")
         IN  IF ~looped.ok THEN looped
             ELSE Ok(looped.val.partitions)

\* partition(text)
partition(text) ==
    IF Len(text) = 0 THEN Ok(<< >>)
    ELSE LET start_with_vchar == is_vchar(text[1], "Internationalized")
             looped == partition_loop(text, 1, << >>, 1,
                           IF start_with_vchar THEN "VCHAR" ELSE "SPACE")
         IN  IF ~looped.ok THEN looped
             ELSE Ok(Append(looped.val.partitions,
                            Partition(looped.val.current_type,
                                      SubSeq(text, looped.val.start_of_current,
                                             Len(text)))))

(***************************************************************************)
(* All components: constructed from a text, then encoded.                  *)
(***************************************************************************)

\* MessageID::try_from(text)
DoMessageIDTryFrom(text) ==
    /\ last' = Called("MessageID::try_from", text, MessageID_try_from(text))
    /\ UNCHANGED map

\* message_id.encode(&mut handle), the MessageID just constructed, a fresh
\* writer
DoMessageIDEncode(mail_type) ==
    /\ last.op = "MessageID::try_from"
    /\ last.ret.ok
    /\ last' = Called("MessageID::encode",
                      [component |-> last.ret.val, mail_type |-> mail_type],
                      MessageID_encode(last.ret.val, Encoder_new(mail_type)))
    /\ UNCHANGED map

MessageIDTryFrom == last.op = "new" /\ \E text \in Texts : DoMessageIDTryFrom(text)

MessageIDEncode == \E mail_type \in MailTypes : DoMessageIDEncode(mail_type)

\* Mailbox::from((display_name, email)), the Email just constructed
DoMailboxFrom(display_name) ==
    /\ last.op = "Email::new"
    /\ last.ret.ok
    /\ last' = Called("Mailbox::from", [display_name |-> display_name, email |-> last.ret.val],
                      Ok(Mailbox_from(display_name, last.ret.val)))
    /\ UNCHANGED map

\* mailbox.encode(&mut handle), the Mailbox just constructed, a fresh writer
DoMailboxEncode(mail_type, encode_ok) ==
    /\ last.op = "Mailbox::from"
    /\ last' = Called("Mailbox::encode",
                      [component |-> last.ret.val, mail_type |-> mail_type,
                       encode_ok |-> encode_ok],
                      Mailbox_encode(last.ret.val, Encoder_new(mail_type), encode_ok))
    /\ UNCHANGED map

\* mailbox.auto_gen_name(default_fn), the Mailbox just constructed
DoAutoGenName(default_fn) ==
    /\ last.op = "Mailbox::from"
    /\ last' = Called("Mailbox::auto_gen_name",
                      [mailbox |-> last.ret.val, default_fn |-> default_fn],
                      auto_gen_name(last.ret.val, default_fn))
    /\ UNCHANGED map

\* mailbox.with_default_name(default_fn), the Mailbox just constructed
DoWithDefaultName(default_fn) ==
    /\ last.op = "Mailbox::from"
    /\ last' = Called("Mailbox::with_default_name",
                      [mailbox |-> last.ret.val, default_fn |-> default_fn],
                      with_default_name(last.ret.val, default_fn))
    /\ UNCHANGED map

MailboxFrom ==
    \E display_name \in {None} \cup { Some(phrase) : phrase \in Phrases } :
        DoMailboxFrom(display_name)

MailboxEncode ==
    \E mail_type \in MailTypes, encode_ok \in BOOLEAN :
        DoMailboxEncode(mail_type, encode_ok)

AutoGenName == \E default_fn \in GeneratorResults : DoAutoGenName(default_fn)

WithDefaultName == \E default_fn \in GeneratorResults : DoWithDefaultName(default_fn)

\* handle.undo_header(), called by the caller of an encode that failed
DoUndoHeader ==
    /\ last.op \in {"Email::encode", "Domain::encode", "LocalPart::encode",
                    "MessageID::encode", "Mailbox::encode",
                    "RawUnstructured::encode"}
    /\ ~last.ret.ok
    /\ last' = Called("undo_header", last.ret.handle, undo_header(last.ret.handle))
    /\ UNCHANGED map

UndoHeader == DoUndoHeader

\* RawUnstructured::from(text)
DoRawUnstructuredFrom(text) ==
    /\ last' = Called("RawUnstructured::from", text, Ok(RawUnstructured_from(text)))
    /\ UNCHANGED map

\* raw.encode(&mut handle), the RawUnstructured just constructed, a fresh
\* writer
DoRawUnstructuredEncode(mail_type) ==
    /\ last.op = "RawUnstructured::from"
    /\ last' = Called("RawUnstructured::encode",
                      [component |-> last.ret.val, mail_type |-> mail_type],
                      RawUnstructured_encode(last.ret.val, Encoder_new(mail_type)))
    /\ UNCHANGED map

\* transfer_encoding.encode(&mut handle), a fresh writer
DoTransferEncodingEncode(self, mail_type) ==
    /\ last.op = "new"
    /\ last' = Called("TransferEncoding::encode",
                      [component |-> self, mail_type |-> mail_type],
                      TransferEncoding_encode(self, Encoder_new(mail_type)))
    /\ UNCHANGED map

RawUnstructuredFrom ==
    last.op = "new" /\ \E text \in Texts : DoRawUnstructuredFrom(text)

RawUnstructuredEncode ==
    \E mail_type \in MailTypes : DoRawUnstructuredEncode(mail_type)

TransferEncodingEncode ==
    \E self \in TransferEncodings, mail_type \in MailTypes :
        DoTransferEncodingEncode(self, mail_type)

\* partition(text)
DoPartition(text) ==
    /\ last' = Called("partition", text, partition(text))
    /\ UNCHANGED map

PartitionText == last.op = "new" /\ \E text \in PartitionTexts : DoPartition(text)

NextComponents ==
    \/ EmailNew
    \/ DomainTryFrom
    \/ LocalPartTryFrom
    \/ EmailEncode
    \/ DomainEncode
    \/ LocalPartEncode
    \/ MessageIDTryFrom
    \/ MessageIDEncode
    \/ MailboxFrom
    \/ MailboxEncode
    \/ AutoGenName
    \/ WithDefaultName
    \/ RawUnstructuredFrom
    \/ RawUnstructuredEncode
    \/ TransferEncodingEncode
    \/ UndoHeader
    \/ PartitionText

SpecComponents == Init /\ [][NextComponents]_vars

(***************************************************************************)
(* What the claims speak of                                                *)
(***************************************************************************)

\* The metadata of an entry: the arity flag and the validator identity of
\* the kind it was inserted as.
Metadata(e) == <<HeaderKinds[e.kind].maxOne, HeaderKinds[e.kind].validator>>

\* Two entries of one name whose metadata differ.
Incompatible(e, f) == HeaderKinds[e.kind].name = HeaderKinds[f.kind].name
                      /\ Metadata(e) # Metadata(f)

\* The validator identities the entries of m refer to.
Referenced(m) == { HeaderKinds[m[i].kind].validator : i \in 1..Len(m) } \ {"None"}

\* How often a run called validator v.
Invoked(calls, v) == Cardinality({ i \in 1..Len(calls) : calls[i].validator = v })

\* The positions of m, out of 1..upto, whose entry satisfies keep.
Positions(m, upto, keep(_)) == { i \in 1..upto : keep(m[i]) }

\* The position of the k-th entry of m that satisfies keep.
Kth(m, k, keep(_)) ==
    CHOOSE i \in 1..Len(m) : keep(m[i]) /\ Cardinality(Positions(m, i, keep)) = k

Validated == last.op = "use_contextual_validators"

\* C1 (as claimed): an add under a name that holds an entry of incompatible
\* metadata is rejected with a type error and leaves the map as it was.
C1_ConflictingAddRejected ==
    [][ ( /\ last'.op = "add"
          /\ \E i \in 1..Len(map) : Incompatible(map[i], last'.arg) )
        => ( /\ map' = map
             /\ last'.ret = HeaderTypeError(HeaderKinds[last'.arg.kind].name) ) ]_vars

\* C2 (as claimed): one run of use_contextual_validators invokes every
\* validator referenced by an entry exactly once.
C2_EveryValidatorOnce ==
    Validated => \A v \in Referenced(map) : Invoked(last.ret.calls, v) = 1

\* C2 (amended): one run invokes only referenced validators, none of them
\* more than once, and every one of them exactly once when the run returns Ok.
C2_NoValidatorTwice ==
    Validated =>
        /\ \A i \in 1..Len(last.ret.calls) :
               last.ret.calls[i].validator \in Referenced(map)
        /\ \A v \in Referenced(map) : Invoked(last.ret.calls, v) <= 1
        /\ last.ret.ret = "Ok" =>
               \A v \in Referenced(map) : Invoked(last.ret.calls, v) = 1

\* C2 witness: a run that returned Ok over two entries of different names
\* that share one validator, next to an entry of another validator.
C2_Witness ==
    /\ Validated
    /\ last.ret.ret = "Ok"
    /\ Cardinality(Referenced(map)) > 1
    /\ \E i, j \in 1..Len(map) :
           /\ HeaderKinds[map[i].kind].name # HeaderKinds[map[j].kind].name
           /\ HeaderKinds[map[i].kind].validator = HeaderKinds[map[j].kind].validator
           /\ HeaderKinds[map[i].kind].validator # "None"

\* C3: a failing validator ends the run: it is the last one called, every
\* call before it returned Ok, and its error is what the run returns.
C3_FailureAborts ==
    Validated =>
        LET calls == last.ret.calls
        IN  /\ \A i \in 1..Len(calls) :
                   calls[i].res # "Ok" => i = Len(calls) /\ last.ret.ret = calls[i].res
            /\ last.ret.ret # "Ok" =>
                   Len(calls) > 0 /\ calls[Len(calls)].res = last.ret.ret

\* C3 witness: a run that failed while a referenced validator had not run.
C3_Witness ==
    /\ Validated
    /\ last.ret.ret # "Ok"
    /\ \E v \in Referenced(map) : Invoked(last.ret.calls, v) = 0

\* C4 (as claimed): a combine that meets a metadata conflict under some name
\* leaves the receiver exactly as it was.
C4_ConflictingCombineRolledBack ==
    [][ ( /\ last'.op = "combine"
          /\ \E i \in 1..Len(map), j \in 1..Len(last'.arg) :
                 Incompatible(map[i], last'.arg[j]) )
        => map' = map ]_vars

\* C5: add places the new entry last and combine places other's entries, in
\* their order, after the receiver's, in theirs.
C5_InsertionOrder ==
    [][ /\ last'.op = "add" =>
            /\ Len(map') = Len(map) + 1
            /\ map'[Len(map')] = last'.arg
            /\ \A i \in 1..Len(map) : map'[i] = map[i]
        /\ last'.op = "combine" =>
            /\ Len(map') = Len(map) + Len(last'.arg)
            /\ \A i \in 1..Len(map) : map'[i] = map[i]
            /\ \A j \in 1..Len(last'.arg) : map'[Len(map) + j] = last'.arg[j] ]_vars

\* C5 witness: a combine of two entries onto a map that held one, all three
\* different.
C5_Witness ==
    /\ last.op = "combine"
    /\ Len(last.arg) = 2
    /\ Len(map) = 3
    /\ Cardinality({ map[i] : i \in 1..3 }) = 3

\* C6: get(H) yields one item per entry under H's name, in map order: the
\* entry itself when it was inserted as H, a HeaderTypeError otherwise.
C6_TypedGet ==
    last.op = "get" =>
        LET H        == last.arg
            under(e) == HeaderKinds[e.kind].name = HeaderKinds[H].name
        IN  /\ Len(last.ret) = Cardinality(Positions(map, Len(map), under))
            /\ \A k \in 1..Len(last.ret) :
                   LET e == map[Kth(map, k, under)]
                   IN  IF e.kind = H
                       THEN last.ret[k] = [ok |-> TRUE, val |-> e]
                       ELSE /\ ~last.ret[k].ok
                            /\ last.ret[k].err.error = "HeaderTypeError"

\* C6 witness: a get that yielded an entry and a type error.
C6_Witness ==
    /\ last.op = "get"
    /\ \E i, j \in 1..Len(last.ret) : last.ret[i].ok /\ ~last.ret[j].ok

\* C7: remove_by_name(n) removes the entries of name n and no other, keeps
\* the order of the rest, returns whether it removed one, and repeated at
\* once returns false and changes nothing.
C7_RemoveByName ==
    [][ last'.op = "remove_by_name" =>
            LET n       == last'.arg
                kept(e) == HeaderKinds[e.kind].name # n
            IN  /\ Len(map') = Cardinality(Positions(map, Len(map), kept))
                /\ \A k \in 1..Len(map') : map'[k] = map[Kth(map, k, kept)]
                /\ last'.ret = (\E i \in 1..Len(map) : ~kept(map[i]))
                /\ (last.op = "remove_by_name" /\ last.arg = n) =>
                       (last'.ret = FALSE /\ map' = map) ]_vars

\* C7 witness: a remove_by_name that removed something and left two entries.
C7_Witness ==
    /\ last.op = "remove_by_name"
    /\ last.ret = TRUE
    /\ Len(map) = 2

\* The entries of m under a Resent- name, in map order.
ResentSeq(m) ==
    SelectSeq(m, LAMBDA e :
        e.kind \in {"ResentDate", "ResentFrom", "ResentSender", "ResentTo"})

\* Where the block of resent entry i starts: a block ends before the first
\* entry whose name the block holds already.
RECURSIVE BlockStart(_, _)
BlockStart(rs, i) ==
    IF i = 1
    THEN 1
    ELSE LET s == BlockStart(rs, i - 1)
         IN  IF \E j \in s..(i - 1) :
                    HeaderKinds[rs[j].kind].name = HeaderKinds[rs[i].kind].name
             THEN i
             ELSE s

\* The blocks of rs, each named by the position it starts at.
Blocks(rs) == { BlockStart(rs, i) : i \in 1..Len(rs) }

\* The entries of the block that starts at s.
Block(rs, s) == { rs[i] : i \in { j \in 1..Len(rs) : BlockStart(rs, j) = s } }

\* The block holds no Resent-Date.
LacksDate(rs, s) == \A e \in Block(rs, s) : e.kind # "ResentDate"

\* The block holds a Resent-From of several mailboxes and no Resent-Sender.
LacksSender(rs, s) ==
    /\ \E e \in Block(rs, s) : e.kind = "ResentFrom" /\ e.len > 1
    /\ \A e \in Block(rs, s) : e.kind # "ResentSender"

\* Every block before the one at s passes both rules.
EarlierBlocksPass(rs, s) ==
    \A t \in Blocks(rs) : t < s => ~LacksDate(rs, t) /\ ~LacksSender(rs, t)

\* A run over a map that holds resent entries.
ResentValidated == Validated /\ Len(ResentSeq(map)) > 0

\* C8 (as claimed): validation fails with ResentDateFieldMissing whenever
\* some block holds no Resent-Date.
C8_MissingDateAlwaysReported ==
    ResentValidated =>
        ( (\E s \in Blocks(ResentSeq(map)) : LacksDate(ResentSeq(map), s))
          => last.ret.ret = "ResentDateFieldMissing" )

\* C8 (amended): the resent entries alone form the blocks; validation fails
\* whenever some block, the last included, holds no Resent-Date, and the
\* error is ResentDateFieldMissing when no earlier block breaks the
\* Resent-From rule, and only when some block holds no Resent-Date.
C8_MissingDateFails ==
    ResentValidated =>
        LET rs == ResentSeq(map)
        IN  /\ (\E s \in Blocks(rs) : LacksDate(rs, s)) => last.ret.ret # "Ok"
            /\ (\E s \in Blocks(rs) : LacksDate(rs, s) /\ EarlierBlocksPass(rs, s))
                   => last.ret.ret = "ResentDateFieldMissing"
            /\ last.ret.ret = "ResentDateFieldMissing"
                   => \E s \in Blocks(rs) : LacksDate(rs, s)

\* C8 witness: the first block holds a Resent-Date, a later block holds
\* none, an entry of another name stands among them, and the run reports
\* the missing date.
C8_Witness ==
    /\ ResentValidated
    /\ last.ret.ret = "ResentDateFieldMissing"
    /\ ~LacksDate(ResentSeq(map), 1)
    /\ Cardinality(Blocks(ResentSeq(map))) > 1
    /\ \E i \in 2..(Len(map) - 1) : map[i].kind = "Subject"

\* C9 (as claimed): validation fails with
\* MultiMailboxResentFromWithoutResentSender whenever some block holds a
\* Resent-From of several mailboxes and no Resent-Sender.
C9_MissingSenderAlwaysReported ==
    ResentValidated =>
        ( (\E s \in Blocks(ResentSeq(map)) : LacksSender(ResentSeq(map), s))
          => last.ret.ret = "MultiMailboxResentFromWithoutResentSender" )

\* C9 (amended): validation fails whenever a block holds a Resent-From of
\* several mailboxes and no Resent-Sender of its own; the error is
\* MultiMailboxResentFromWithoutResentSender when that block holds a
\* Resent-Date and every earlier block passes, and only when some block
\* with a Resent-Date breaks the rule.
C9_MissingSenderFails ==
    ResentValidated =>
        LET rs == ResentSeq(map)
        IN  /\ (\E s \in Blocks(rs) : LacksSender(rs, s)) => last.ret.ret # "Ok"
            /\ (\E s \in Blocks(rs) : /\ LacksSender(rs, s)
                                      /\ ~LacksDate(rs, s)
                                      /\ EarlierBlocksPass(rs, s))
                   => last.ret.ret = "MultiMailboxResentFromWithoutResentSender"
            /\ last.ret.ret = "MultiMailboxResentFromWithoutResentSender"
                   => \E s \in Blocks(rs) : LacksSender(rs, s) /\ ~LacksDate(rs, s)

\* C9 witness: the run reports the missing sender of a block although
\* another block holds a Resent-Sender.
C9_Witness ==
    /\ ResentValidated
    /\ last.ret.ret = "MultiMailboxResentFromWithoutResentSender"
    /\ \E i \in 1..Len(map) : map[i].kind = "ResentSender"

MeantToValidate(v, e) ==
    CASE v = "from"       -> name(e) = KindName("From")
      [] v = "resent_any" -> starts_with_resent(name(e))

\* C11: a built-in validator called with a map that holds none of the
\* headers it is meant to validate returns Ok; resent_any on a map without
\* a Resent- entry returns Ok.
C11_ForeignMapIsOk ==
    (/\ last.op = "VALIDATOR"
     /\ \A i \in 1..Len(map) : ~MeantToValidate(last.arg, map[i]))
        => last.ret = "Ok"

\* The text has no at sign.
NoAt(text) == \A i \in 1..Len(text) : text[i] # "@"

\* C12: Email construction from a text without an at sign, the empty text
\* included, fails with InvalidEmail carrying the text; no Email is produced.
C12_NoAtIsInvalidEmail ==
    (last.op = "Email::new" /\ NoAt(last.arg)) =>
        /\ ~last.ret.ok
        /\ last.ret.err = [kind |-> "InvalidEmail", text |-> last.arg]

\* C12 witness: a text of letters and dots was refused as an Email.
C12_Witness ==
    /\ last.op = "Email::new"
    /\ last.arg = <<"a", ".", "a">>
    /\ ~last.ret.ok

\* The text is delimited by brackets.
Bracketed(text) == Len(text) >= 2 /\ text[1] = "[" /\ text[Len(text)] = "]"

\* The text is not bracket-delimited and starts with a dot, or holds two
\* dots in a row, or holds a character that is neither a dot nor atext.
BadDotAtom(text) ==
    /\ ~Bracketed(text)
    /\ \/ Len(text) > 0 /\ text[1] = "."
       \/ \E i \in 1..(Len(text) - 1) : text[i] = "." /\ text[i + 1] = "."
       \/ \E i \in 1..Len(text) :
              text[i] # "." /\ ~is_atext(text[i], "Internationalized")

\* C14: Domain construction from a text that is not bracketed rejects, with
\* InvalidDomainName, a text that starts with a dot, that holds two
\* consecutive dots, or that holds a character other than the dot that is
\* not internationalized atext.
C14_BadDotAtomRejected ==
    (last.op = "Domain::try_from" /\ BadDotAtom(last.arg)) =>
        /\ ~last.ret.ok
        /\ last.ret.err = [kind |-> "InvalidDomainName", text |-> last.arg]

\* C14 witness: two consecutive dots between atext characters were refused.
C14_Witness ==
    /\ last.op = "Domain::try_from"
    /\ last.arg = <<"a", ".", ".", "U+00FC">>
    /\ ~last.ret.ok

\* C15: Domain construction rejects a non-bracketed text that ends with a
\* dot, and Email construction rejects a text that ends with a dot.
C15_TrailingDotRejected ==
    /\ (/\ last.op = "Domain::try_from"
        /\ ~Bracketed(last.arg)
        /\ ends_with(last.arg, ".")) => ~last.ret.ok
    /\ (last.op = "Email::new" /\ ends_with(last.arg, ".")) => ~last.ret.ok

\* Every character between the brackets is dtext or whitespace.
LiteralInterior(text) ==
    \A i \in 2..(Len(text) - 1) :
        is_dtext(text[i], "Internationalized") \/ is_ws(text[i])

\* C16: Domain construction accepts a bracket-delimited text whenever every
\* character between the brackets is dtext or whitespace, and rejects it
\* with InvalidDomainName otherwise.
C16_DomainLiteral ==
    (last.op = "Domain::try_from" /\ Bracketed(last.arg)) =>
        IF LiteralInterior(last.arg)
        THEN last.ret.ok
        ELSE /\ ~last.ret.ok
             /\ last.ret.err = [kind |-> "InvalidDomainName", text |-> last.arg]

\* C17: Domain construction rejects the empty text, and Email construction
\* rejects a text whose first at sign is its last character.
C17_EmptyDomainRejected ==
    /\ (last.op = "Domain::try_from" /\ last.arg = << >>) => ~last.ret.ok
    /\ (/\ last.op = "Email::new"
        /\ ends_with(last.arg, "@")
        /\ NoAt(SubSeq(last.arg, 1, Len(last.arg) - 1))) => ~last.ret.ok

\* The text written to a writer: its text tokens, one after another.
RECURSIVE WrittenFrom(_, _)
WrittenFrom(trace, i) ==
    IF i > Len(trace) THEN << >> ELSE trace[i].text \o WrittenFrom(trace, i + 1)

Written(handle) == WrittenFrom(handle.trace, 1)

AllAscii(text) == \A i \in 1..Len(text) : is_ascii(text[i])

\* Unquoted dot-atom-text under a mail type: one or more atext characters,
\* with single dots between them only.
UnquotedDotAtom(text, mail_type) ==
    /\ Len(text) > 0
    /\ \A i \in 1..Len(text) : text[i] = "." \/ is_atext(text[i], mail_type)
    /\ text[1] # "." /\ text[Len(text)] # "."
    /\ \A i \in 1..(Len(text) - 1) : ~(text[i] = "." /\ text[i + 1] = ".")

\* The at signs of a text that split it into a local part and a domain
\* which Domain construction accepts.
ValidSplits(text) ==
    { i \in 1..Len(text) :
        /\ text[i] = "@"
        /\ LocalPart_try_from(SubSeq(text, 1, i - 1)).ok
        /\ Domain_try_from(SubSeq(text, i + 1, Len(text))).ok }

EmailEncoded == last.op = "Email::encode"

\* C13 as stated: whenever a text is local + "@" + domain, split at its
\* first at sign, with a local part LocalPart construction accepts and a
\* domain of dot-atom-text, Email construction succeeds, and encoding such
\* an Email with a local part that is not empty writes local, "@" and the
\* domain, the domain as it is when it is ASCII and in its IDNA form when
\* it is not and the writer is Ascii.
C13_EveryValidPairRoundTrips ==
    /\ last.op = "Email::new" =>
           \A i \in ValidSplits(last.arg) :
               (/\ NoAt(SubSeq(last.arg, 1, i - 1))
                /\ UnquotedDotAtom(SubSeq(last.arg, i + 1, Len(last.arg)),
                                   "Internationalized")) => last.ret.ok
    /\ (/\ EmailEncoded
        /\ Len(last.arg.component.local_part) > 0
        /\ UnquotedDotAtom(last.arg.component.domain.text, "Internationalized")
        /\ \/ AllAscii(last.arg.component.domain.text)
           \/ last.arg.mail_type = "Ascii") =>
           /\ last.ret.ok
           /\ Written(last.ret.handle) =
                  last.arg.component.local_part \o <<"@">> \o
                  (IF AllAscii(last.arg.component.domain.text)
                   THEN last.arg.component.domain.text
                   ELSE puny_code_domain(last.arg.component.domain.text).val)

\* The domain text an encode has to write: the text itself if it is ASCII
\* or the writer is internationalized, its IDNA form otherwise.
DomainWritten(text, mail_type) ==
    IF AllAscii(text) \/ mail_type = "Internationalized"
    THEN Ok(text)
    ELSE puny_code_domain(text)

\* C13, amended: when the local part holds no at sign and Domain
\* construction accepts the domain, Email construction from local + "@" +
\* domain succeeds with exactly these two parts; when the local part is
\* unquoted dot-atom-text under the writer's mail type, encoding writes
\* local, "@" and the domain text (itself, or its IDNA form for a non-ASCII
\* domain and a writer that is not internationalized), and fails if the
\* IDNA transform fails.
C13_RoundTrip ==
    /\ last.op = "Email::new" =>
           \A i \in ValidSplits(last.arg) :
               NoAt(SubSeq(last.arg, 1, i - 1)) =>
                   /\ last.ret.ok
                   /\ last.ret.val.local_part = SubSeq(last.arg, 1, i - 1)
                   /\ last.ret.val.domain.text = SubSeq(last.arg, i + 1, Len(last.arg))
    /\ (/\ EmailEncoded
        /\ UnquotedDotAtom(last.arg.component.local_part, last.arg.mail_type)) =>
           LET domain == DomainWritten(last.arg.component.domain.text, last.arg.mail_type)
           IN  IF domain.ok
               THEN /\ last.ret.ok
                    /\ Written(last.ret.handle) =
                           last.arg.component.local_part \o <<"@">> \o domain.val
               ELSE ~last.ret.ok

\* C13 witness: a@<u-umlaut> was written by an Ascii writer as a@xn--tda.
C13_Witness ==
    /\ EmailEncoded
    /\ last.arg.mail_type = "Ascii"
    /\ last.arg.component.local_part = <<"a">>
    /\ last.arg.component.domain.text = <<"U+00FC">>
    /\ last.ret.ok
    /\ Written(last.ret.handle) = <<"a", "@", "x", "n", "-", "-", "t", "d", "a">>

DomainEncoded == last.op = "Domain::encode"

\* C18: encoding a Domain writes a fold mark, the domain text and a fold
\* mark: the stored text for a Domain stored as ASCII, the raw UTF-8 text
\* for one stored as UTF-8 and an Internationalized writer, the per-label
\* punycode form for one stored as UTF-8 and an Ascii or Mime8BitEnabled
\* writer, the encode failing if the punycode transform fails.
C18_DomainEncode ==
    DomainEncoded =>
        LET domain == last.arg.component
            mail_type == last.arg.mail_type
            puny == puny_code_domain(domain.text)
            wrote(text) == /\ last.ret.ok
                           /\ last.ret.handle.trace = <<MarkFWS, Text(text), MarkFWS>>
        IN  CASE domain.tag = "Ascii" -> wrote(domain.text)
              [] domain.tag = "Utf8" /\ mail_type = "Internationalized" ->
                     wrote(domain.text)
              [] domain.tag = "Utf8" /\ mail_type \in {"Ascii", "Mime8BitEnabled"} ->
                     IF puny.ok THEN wrote(puny.val) ELSE ~last.ret.ok

\* C18 witness: <u-umlaut>.a<u-umlaut> was written by a Mime8BitEnabled
\* writer as xn--tda.xn--a-eha between two fold marks.
C18_Witness ==
    /\ DomainEncoded
    /\ last.arg.mail_type = "Mime8BitEnabled"
    /\ last.arg.component = [tag |-> "Utf8",
                             text |-> <<"U+00FC", ".", "a", "U+00FC">>]
    /\ last.ret.ok
    /\ last.ret.handle.trace =
           <<MarkFWS,
             Text(<<"x", "n", "-", "-", "t", "d", "a", ".",
                    "x", "n", "-", "-", "a", "-", "e", "h", "a">>),
             MarkFWS>>

LocalPartEncoded == last.op = "LocalPart::encode"

\* C19: encoding a LocalPart that holds a non-ASCII character with a writer
\* that is not Internationalized fails with InvalidLocalPart, whether or
\* not the text needs quoting, and writes nothing: no fold mark, no text.
C19_NonAsciiLocalPartFails ==
    (/\ LocalPartEncoded
     /\ ~AllAscii(last.arg.component)
     /\ last.arg.mail_type # "Internationalized") =>
        /\ ~last.ret.ok
        /\ last.ret.err = [kind |-> "InvalidLocalPart", text |-> last.arg.component]
        /\ last.ret.handle = Encoder_new(last.arg.mail_type)

\* C19 witness: a non-ASCII local part that would need no quotes was
\* refused by a Mime8BitEnabled writer.
C19_Witness ==
    /\ LocalPartEncoded
    /\ last.arg.mail_type = "Mime8BitEnabled"
    /\ last.arg.component = <<"a", ".", "U+00FC">>
    /\ ~last.ret.ok

\* The quoted-string form of a text: the text between double quotes, a
\* backslash before every double quote of the text.
RECURSIVE Escaped(_)
Escaped(text) ==
    IF text = << >> THEN << >>
    ELSE (IF Head(text) = "\"" THEN <<"\\", "\"">> ELSE <<Head(text)>>)
             \o Escaped(Tail(text))

QuotedString(text) == <<"\"">> \o Escaped(text) \o <<"\"">>

\* C20: a successful LocalPart encode writes a fold mark, one text token
\* and a fold mark; the token is the stored text when it is unquoted
\* dot-atom-text under the writer's mail type, its quoted-string form
\* otherwise.
C20_LocalPartEncode ==
    (LocalPartEncoded /\ last.ret.ok) =>
        last.ret.handle.trace =
            <<MarkFWS,
              Text(IF UnquotedDotAtom(last.arg.component, last.arg.mail_type)
                   THEN last.arg.component
                   ELSE QuotedString(last.arg.component)),
              MarkFWS>>

\* C20 witness: a text with a space and a double quote was written quoted.
C20_Witness ==
    /\ LocalPartEncoded
    /\ last.arg.mail_type = "Ascii"
    /\ last.arg.component = <<"a", " ", "\"">>
    /\ last.ret.ok
    /\ last.ret.handle.trace =
           <<MarkFWS, Text(<<"\"", "a", " ", "\\", "\"", "\"">>), MarkFWS>>

\* no-fold-literal: dtext characters between brackets.
NoFoldLiteral(text) ==
    /\ Bracketed(text)
    /\ \A i \in 2..(Len(text) - 1) : is_dtext(text[i], "Internationalized")

\* The whole text is dot-atom-text "@" (dot-atom-text | no-fold-literal).
MessageIdGrammar(text) ==
    \E i \in 1..Len(text) :
        /\ text[i] = "@"
        /\ UnquotedDotAtom(SubSeq(text, 1, i - 1), "Internationalized")
        /\ LET right == SubSeq(text, i + 1, Len(text))
           IN  UnquotedDotAtom(right, "Internationalized") \/ NoFoldLiteral(right)

\* C21: MessageID construction succeeds exactly when the whole input is
\* dot-atom-text "@" (dot-atom-text | no-fold-literal); otherwise it returns
\* a creation error naming the component MessageID and carrying the input.
C21_MessageIdGrammar ==
    last.op = "MessageID::try_from" =>
        IF MessageIdGrammar(last.arg)
        THEN last.ret.ok /\ last.ret.val.message_id.text = last.arg
        ELSE /\ ~last.ret.ok
             /\ last.ret.err = [component |-> "MessageID", str_context |-> last.arg]

\* C21 witness: an id with a literal on the right was accepted.
C21_Witness ==
    /\ last.op = "MessageID::try_from"
    /\ last.arg = <<"a", "@", "[", "]">>
    /\ last.ret.ok

MessageIDEncoded == last.op = "MessageID::encode"

\* C22: encoding a MessageID writes a fold mark, "<", the stored text, ">"
\* and a fold mark; an ASCII text with every writer, a non-ASCII text only
\* with an Internationalized writer; with another writer the encode of a
\* non-ASCII text fails, nothing being transcoded.
C22_MessageIdEncode ==
    MessageIDEncoded =>
        LET text == last.arg.component.message_id.text
        IN  IF AllAscii(text) \/ last.arg.mail_type = "Internationalized"
            THEN /\ last.ret.ok
                 /\ last.ret.handle.trace =
                        <<MarkFWS, Text(<<"<">> \o text \o <<">">>), MarkFWS>>
            ELSE ~last.ret.ok

\* C22 witness: a non-ASCII id was refused by a Mime8BitEnabled writer.
C22_Witness ==
    /\ MessageIDEncoded
    /\ last.arg.mail_type = "Mime8BitEnabled"
    /\ last.arg.component.message_id.text = <<"a", "@", "U+00FC">>
    /\ ~last.ret.ok

MailboxEncoded == last.op = "Mailbox::encode"

\* The tokens of a display name: its words, a fold mark and a space before
\* every word but the first.
PhraseTokens(words) ==
    [k \in 1..(2 * Len(words) - 1) |->
        IF k % 2 = 0 THEN MarkFWS
        ELSE Text((IF k = 1 THEN << >> ELSE <<" ">>) \o words[(k + 1) \div 2])]

\* What a Mailbox has written when it reaches the Email: the name and the
\* separator if there is a name, and "<".
MailboxOpening(mailbox) ==
    IF mailbox.display_name.some
    THEN PhraseTokens(mailbox.display_name.val.words)
             \o <<MarkFWS, Text(<<" ", "<">>)>>
    ELSE <<Text(<<"<">>)>>

\* C23: a Mailbox encode writes the display name and a folding-whitespace
\* separator exactly when there is a display name, then "<", the encoded
\* Email and ">"; when the display name's encode or the Email's encode
\* fails, that failure is returned and nothing is written after it.
C23_MailboxEncode ==
    MailboxEncoded =>
        LET mailbox == last.arg.component
            email == Email_encode(mailbox.email, Encoder_new(last.arg.mail_type))
            trace == last.ret.handle.trace
        IN  IF mailbox.display_name.some /\ ~last.arg.encode_ok
            THEN ~last.ret.ok /\ last.ret.err.kind = "Phrase" /\ trace = << >>
            ELSE IF ~email.ok
            THEN /\ ~last.ret.ok
                 /\ last.ret.err = email.err
                 /\ trace = MailboxOpening(mailbox) \o email.handle.trace
            ELSE /\ last.ret.ok
                 /\ trace = MailboxOpening(mailbox) \o email.handle.trace
                                \o <<Text(<<">">>)>>

\* C23 witness: "ay ya <a@a>" was written.
C23_Witness ==
    /\ MailboxEncoded
    /\ last.ret.ok
    /\ last.ret.handle.trace =
           <<Text(<<"a", "y">>), MarkFWS, Text(<<" ", "y", "a">>), MarkFWS,
             Text(<<" ", "<">>), MarkFWS, Text(<<"a">>), MarkFWS, Text(<<"@">>),
             MarkFWS, Text(<<"a">>), MarkFWS, Text(<<">">>)>>

\* A mailbox without a name was written in the angle-bracket form.
C23_WitnessEmailOnly ==
    /\ MailboxEncoded
    /\ last.ret.ok
    /\ last.ret.handle.trace =
           <<Text(<<"<">>), MarkFWS, Text(<<"a">>), MarkFWS, Text(<<"@">>),
             MarkFWS, Text(<<"a">>), MarkFWS, Text(<<">">>)>>

NameGenerated == last.op \in {"Mailbox::auto_gen_name", "Mailbox::with_default_name"}

\* The mailbox after the call: self for auto_gen_name, the returned mailbox
\* for with_default_name (there is none when it fails).
MailboxAfter ==
    IF last.op = "Mailbox::auto_gen_name" THEN last.ret.mailbox
    ELSE last.ret.result.val

\* C24: auto_gen_name and with_default_name do not call the generator and
\* leave the mailbox as it is when it has a display name; without one they
\* call the generator once, with the mailbox's email, and the display name
\* becomes what it answers (no name: the mailbox is unchanged); a
\* generator error is returned as it is and no display name is set.
C24_DefaultName ==
    NameGenerated =>
        LET mailbox == last.arg.mailbox
            default_fn == last.arg.default_fn
        IN  IF mailbox.display_name.some
            THEN /\ last.ret.calls = << >>
                 /\ last.ret.result.ok
                 /\ MailboxAfter = mailbox
            ELSE /\ last.ret.calls = <<mailbox.email>>
                 /\ IF default_fn.ok
                    THEN /\ last.ret.result.ok
                         /\ MailboxAfter.email = mailbox.email
                         /\ MailboxAfter.display_name = default_fn.val
                         /\ default_fn.val = None => MailboxAfter = mailbox
                    ELSE /\ last.ret.result = default_fn
                         /\ last.op = "Mailbox::auto_gen_name"
                                => last.ret.mailbox = mailbox

\* C24 witness: a mailbox without a name got the name "ay ya".
C24_Witness ==
    /\ last.op = "Mailbox::with_default_name"
    /\ ~last.arg.mailbox.display_name.some
    /\ last.ret.result.ok
    /\ last.ret.result.val.display_name.some
    /\ Len(last.ret.result.val.display_name.val.words) = 2

FailedEncode ==
    /\ last.op \in {"Email::encode", "Domain::encode", "LocalPart::encode",
                    "MessageID::encode", "Mailbox::encode"}
    /\ ~last.ret.ok

\* C25 as stated: after a failed encode has returned, nothing of the entry
\* is left in the writer.
C25_FailedEncodeLeavesNothing == FailedEncode => last.ret.handle.trace = << >>

\* C25, as the code has it: a failed encode returns with what it wrote
\* before the failure still in the writer (the fold mark and "<" of a
\* MessageID; the local part, "@" and a fold mark of an Email whose domain
\* failed); the output is gone once the caller has called undo_header.
C25_CallerUndoes ==
    /\ (last.op = "MessageID::encode" /\ ~last.ret.ok)
           => last.ret.handle.trace = <<MarkFWS, Text(<<"<">>)>>
    /\ (last.op = "Email::encode" /\ ~last.ret.ok)
           => LET local_part == LocalPart_encode(last.arg.component.local_part,
                                                 Encoder_new(last.arg.mail_type))
              IN  IF ~local_part.ok THEN last.ret.handle.trace = << >>
                  ELSE last.ret.handle.trace =
                           local_part.handle.trace \o <<Text(<<"@">>), MarkFWS>>
    /\ last.op = "undo_header" => last.ret.trace = << >>

\* C25 witness: the caller rolled back the fold mark and "<" a failed
\* MessageID encode had left.
C25_Witness ==
    /\ last.op = "undo_header"
    /\ last.arg.trace = <<MarkFWS, Text(<<"<">>)>>
    /\ last.ret.trace = << >>

EncodeOps ==
    {"LocalPart::encode", "Domain::encode", "Email::encode", "MessageID::encode",
     "Mailbox::encode", "RawUnstructured::encode", "TransferEncoding::encode"}

\* C26: whatever component is encoded, with a writer whose mail type is not
\* Internationalized every text the writer was handed is ASCII, whether the
\* encode succeeded or stopped half way.
C26_AsciiPayloads ==
    (last.op \in EncodeOps /\ ~is_internationalized(last.arg.mail_type)) =>
        \A k \in 1..Len(last.ret.handle.trace) :
            AllAscii(last.ret.handle.trace[k].text)

\* C26 witness: an Email with a non-ASCII domain was written by a
\* Mime8BitEnabled writer, the domain transcoded.
C26_Witness ==
    /\ last.op = "Email::encode"
    /\ last.arg.mail_type = "Mime8BitEnabled"
    /\ last.arg.component.domain.text = <<"U+00FC">>
    /\ last.ret.ok
    /\ last.ret.handle.trace[6] = Text(<<"x", "n", "-", "-", "t", "d", "a">>)

\* A RawUnstructured with a non-ASCII text was refused by an Ascii writer.
C26_WitnessRaw ==
    /\ last.op = "RawUnstructured::encode"
    /\ last.arg.mail_type = "Ascii"
    /\ ~AllAscii(last.arg.component.text)
    /\ ~last.ret.ok

\* The Domain the last operation constructed, was given or holds.
DomainsAtHand ==
    IF last.op = "Domain::try_from" /\ last.ret.ok THEN {last.ret.val}
    ELSE IF last.op = "Email::new" /\ last.ret.ok THEN {last.ret.val.domain}
    ELSE IF last.op = "Domain::encode" THEN {last.arg.component}
    ELSE IF last.op = "Email::encode" THEN {last.arg.component.domain}
    ELSE IF last.op = "Mailbox::from" THEN {last.ret.val.email.domain}
    ELSE IF last.op = "Mailbox::encode" THEN {last.arg.component.email.domain}
    ELSE {}

\* C27: a Domain carries the Ascii tag exactly when all of its text is
\* ASCII, at its construction and in every later operation; check_domain
\* answers Ascii or Internationalized only; the text stored is the input.
C27_DomainTag ==
    /\ \A domain \in DomainsAtHand :
           /\ domain.tag \in {"Ascii", "Utf8"}
           /\ domain.tag = "Ascii" <=> AllAscii(domain.text)
    /\ last.op = "Domain::try_from" =>
           LET checked == check_domain(last.arg)
           IN  /\ last.ret.ok <=> checked.ok
               /\ checked.ok =>
                      /\ checked.val \in {"Ascii", "Internationalized"}
                      /\ checked.val = "Ascii" <=> AllAscii(last.arg)
                      /\ last.ret.val.text = last.arg

\* C27 witness: a domain with an ASCII label and a non-ASCII label was
\* constructed and is tagged Utf8.
C27_Witness ==
    /\ last.op = "Domain::try_from"
    /\ last.arg = <<"a", ".", "U+00FC">>
    /\ last.ret.ok
    /\ last.ret.val.tag = "Utf8"

\* C28: an Email encode is the LocalPart encode, then "@", then the Domain
\* encode: on success fold mark, local part, fold mark, "@", fold mark,
\* domain, fold mark; a failed LocalPart encode is returned with neither
\* "@" nor anything of the domain written, a failed Domain encode is
\* returned with nothing written after it.
C28_EmailEncodeOrder ==
    EmailEncoded =>
        LET email == last.arg.component
            local_part == LocalPart_encode(email.local_part,
                                           Encoder_new(last.arg.mail_type))
            domain == Domain_encode(email.domain, Encoder_new(last.arg.mail_type))
            trace == last.ret.handle.trace
        IN  IF ~local_part.ok
            THEN /\ ~last.ret.ok
                 /\ last.ret.err = local_part.err
                 /\ trace = local_part.handle.trace
                 /\ \A k \in 1..Len(trace) : trace[k] # Text(<<"@">>)
            ELSE /\ trace = local_part.handle.trace \o <<Text(<<"@">>)>>
                                \o domain.handle.trace
                 /\ last.ret.ok <=> domain.ok
                 /\ IF domain.ok
                    THEN /\ Len(trace) = 7
                         /\ \A k \in {1, 3, 5, 7} : trace[k] = MarkFWS
                         /\ \A k \in {2, 4, 6} : trace[k].type = "Text"
                    ELSE /\ last.ret.err = domain.err
                         /\ trace[Len(trace)] = MarkFWS
                         /\ Len(trace) = 5

\* C28 witness: an Email whose local part is fine and whose domain cannot be
\* transcoded stopped after the domain's first fold mark.
C28_Witness ==
    /\ EmailEncoded
    /\ ~last.ret.ok
    /\ last.ret.err.kind = "PunyCodingDomainFailed"
    /\ last.ret.handle.trace =
           <<MarkFWS, Text(<<"a">>), MarkFWS, Text(<<"@">>), MarkFWS>>

Partitioned == last.op = "partition"

Visible(ch) == ch \in {"a", "U+00FC"}

Blank(ch) == ch \in {" ", "\r", "\n"}

\* The texts of the runs from the k-th on, one after the other.
RECURSIVE Joined(_, _)
Joined(runs, k) ==
    IF k > Len(runs) THEN << >> ELSE runs[k].text \o Joined(runs, k + 1)

\* C29: partition gives no runs for the empty text, fails with
\* NeedAtLastOneVCHAR when some character is neither visible nor space,
\* CR or LF, and otherwise gives non-empty runs, each of visible characters
\* only or of blank characters only, of alternating kinds (hence maximal),
\* that joined in order are the text.
C29_Partition ==
    Partitioned =>
        LET text == last.arg
            runs == last.ret.val
        IN  IF text = << >> THEN last.ret.ok /\ runs = << >>
            ELSE IF \E i \in 1..Len(text) : ~Visible(text[i]) /\ ~Blank(text[i])
            THEN /\ ~last.ret.ok
                 /\ last.ret.err = [kind |-> "NeedAtLastOneVCHAR", text |-> text]
            ELSE /\ last.ret.ok
                 /\ Len(runs) >= 1
                 /\ \A k \in 1..Len(runs) :
                        /\ Len(runs[k].text) > 0
                        /\ runs[k].type \in {"SPACE", "VCHAR"}
                        /\ \A i \in 1..Len(runs[k].text) :
                               IF runs[k].type = "VCHAR"
                               THEN Visible(runs[k].text[i])
                               ELSE Blank(runs[k].text[i])
                 /\ \A k \in 1..(Len(runs) - 1) : runs[k].type # runs[k + 1].type
                 /\ Joined(runs, 1) = text

\* C29 witness: a text of a blank run, a visible run and a blank run was
\* split in three.
C29_Witness ==
    /\ Partitioned
    /\ last.arg = <<" ", "a", "U+00FC", "\n">>
    /\ last.ret.ok
    /\ Len(last.ret.val) = 3

\* A text of blanks only gave one blank run.
C29_WitnessBlank ==
    /\ Partitioned
    /\ last.arg = <<" ", "\r">>
    /\ last.ret = Ok(<<Partition("SPACE", <<" ", "\r">>)>>)

\* The validators a run called.
Ran(run) == { run.calls[i].validator : i \in 1..Len(run.calls) }

\* C30 (as claimed): whatever was done to the map before, a run calls
\* exactly the validators its entries refer to; those of the entries of
\* other after combine(other).
C30_ExactlyTheReferenced ==
    [][ last'.op = "use_contextual_validators" =>
            /\ Ran(last'.ret) = Referenced(map)
            /\ last.op = "combine" => Referenced(last.arg) \subseteq Ran(last'.ret)
      ]_vars

\* C30 (amended): whatever was done to the map before, a run calls only
\* validators the present entries refer to, and all of them when it returns
\* Ok; after clear it calls none and returns Ok; after remove_by_name it
\* calls no validator that only entries of the removed name referred to;
\* after combine(other) a run that returns Ok has called the validators of
\* other's entries.
C30_ValidatorsFollowTheMap ==
    [][ last'.op = "use_contextual_validators" =>
            /\ Ran(last'.ret) \subseteq Referenced(map)
            /\ last'.ret.ret = "Ok" => Ran(last'.ret) = Referenced(map)
            /\ last.op = "clear" => Ran(last'.ret) = {} /\ last'.ret.ret = "Ok"
            /\ last.op = "remove_by_name" =>
                   \A v \in Ran(last'.ret) :
                       \E i \in 1..Len(map) :
                           name(map[i]) # last.arg /\ validator(map[i]) = v
            /\ (last.op = "combine" /\ last'.ret.ret = "Ok") =>
                   Referenced(last.arg) \subseteq Ran(last'.ret)
      ]_vars

\* C30 witness: a run over a map of several entries returned Ok and had
\* called the two validators the entries refer to.
C30_Witness ==
    /\ Validated
    /\ last.ret.ret = "Ok"
    /\ Len(map) >= 2
    /\ Cardinality(Ran(last.ret)) = 2
    /\ Ran(last.ret) = Referenced(map)

====
